---- MODULE Spec2Model ----
(***************************************************************************)
(* Model of tedana's dynamic report: reporting/KappaRho_DynPlot.py (the    *)
(* component table preparation, the spectrum table, the linked charts and  *)
(* the client-side tap callback) and reporting/html_report.py (the         *)
(* templates and the report file).                                         *)
(*                                                                         *)
(* Conventions.                                                            *)
(*  - A text (a Python or JavaScript string that the code pads, splits or  *)
(*    concatenates) is a sequence of chunks; a chunk is a TLA+ string. A   *)
(*    decimal digit and the newline are chunks of their own, so padding    *)
(*    and split/join work on them as the code does on characters.          *)
(*  - Real numbers are exact fractions [num, den]; IEEE rounding is not    *)
(*    modelled.                                                            *)
(*  - JavaScript rows are 0-based; TLA+ sequences are 1-based, so row r of *)
(*    a column is col[r + 1].                                              *)
(***************************************************************************)
EXTENDS Integers, Sequences, FiniteSets, TLC

VARIABLES
    pc,              \* "load" | "done" | "error" (a function called, returned, raised)
                     \* | "ready" (page shown)
    raw,             \* the component table read from comptable_path, in component order
    mapping,         \* the color_mapping argument of create_data_struct
    error,           \* the exception the function raised, or "none"
    comptable_cds,   \* the ColumnDataSource create_data_struct returns
    comp_ts,         \* source_meica_ts.data: key -> time series
    comp_fft,        \* source_meica_fft.data: key -> spectrum
    freqs,           \* the frequency axis _spectrum_data_src returns
    plot_ts_y,       \* source_tsplot.data['y']
    plot_fft_y,      \* source_fftplot.data['y']
    ts_line_color,   \* ts_line.line_color
    fft_line_color,  \* fft_line.line_color
    div_text,        \* div.text
    selected,        \* source_comp_table.selected.indices
    n_sel,           \* history: selection branches run since the last deselect branch (saturating)
    fs,              \* the files on disk: path -> content (absent paths are not in the domain)
    unwritable,      \* the paths open(path, 'wb') is refused on
    args             \* the arguments of generate_report

vars == <<pc, raw, mapping, error, comptable_cds, comp_ts, comp_fft, freqs, plot_ts_y,
          plot_fft_y, ts_line_color, fft_line_color, div_text, selected, n_sel,
          fs, unwritable, args>>

\* The variables of generate_report
reportVars == <<fs, unwritable, args>>

\* generate_report is not part of the run
NoReport ==
    /\ fs = <<>>
    /\ unwritable = {}
    /\ args = <<>>

-----------------------------------------------------------------------------
(* Bounds of the model *)

MaxComps == 3      \* tables of 1..MaxComps components are enumerated exhaustively
MaxVal == 2        \* variance explained ranges over 1..MaxVal in those tables
WideComps == 101   \* one more table, with three-digit component ids
NVols == 2         \* samples per time series
MaxRun == 2        \* n_sel saturates here

-----------------------------------------------------------------------------
(* Arithmetic helpers *)

Frac(n, d) == [num |-> n, den |-> d]

FracEq(a, b) == a.num * b.den = b.num * a.den

\* a <= b for fractions with positive denominators
FracLeq(a, b) == a.num * b.den <= b.num * a.den

RECURSIVE SumSeq(_)
SumSeq(s) == IF s = <<>> THEN 0 ELSE Head(s) + SumSeq(Tail(s))

SeqMin(s) == CHOOSE x \in {s[i] : i \in DOMAIN s} : \A i \in DOMAIN s : x <= s[i]

SeqMax(s) == CHOOSE x \in {s[i] : i \in DOMAIN s} : \A i \in DOMAIN s : x >= s[i]

\* The sequence with the elements of f, a function on 1..n (TLC then keeps
\* it as an evaluated tuple instead of re-evaluating f's rule at each use)
AsSeq(f) == f \o <<>>

Column(rows, f) == AsSeq([i \in DOMAIN rows |-> rows[i][f]])

-----------------------------------------------------------------------------
(* Texts *)

DigitChars == <<"0", "1", "2", "3", "4", "5", "6", "7", "8", "9">>

\* Python's str(i) of a non-negative integer
RECURSIVE Str(_)
Str(n) == IF n < 10 THEN <<DigitChars[n + 1]>>
          ELSE Str(n \div 10) \o <<DigitChars[(n % 10) + 1]>>

\* Python's s.zfill(width)
Zfill(s, width) ==
    IF Len(s) >= width THEN s
    ELSE [i \in 1..(width - Len(s)) |-> "0"] \o s

NewLine == "\n"

\* JavaScript's text.split("\n"): the pieces between the newlines
RECURSIVE Split(_)
Split(text) ==
    IF \A i \in DOMAIN text : text[i] # NewLine THEN <<text>>
    ELSE LET k == CHOOSE i \in DOMAIN text :
                      /\ text[i] = NewLine
                      /\ \A j \in 1..(i - 1) : text[j] # NewLine
         IN  <<SubSeq(text, 1, k - 1)>> \o Split(SubSeq(text, k + 1, Len(text)))

\* JavaScript's lines.join("\n")
RECURSIVE Join(_)
Join(lines) ==
    IF lines = <<>> THEN <<>>
    ELSE IF Len(lines) = 1 THEN lines[1]
    ELSE lines[1] \o <<NewLine>> \o Join(Tail(lines))

-----------------------------------------------------------------------------
(* The component table: inputs *)

\* The classifications, in the order sort_values puts them (alphabetical)
LabelOrder == <<"accepted", "ignored", "rejected">>

Labels == {LabelOrder[i] : i \in DOMAIN LabelOrder}

LabelRank(l) == CHOOSE i \in DOMAIN LabelOrder : LabelOrder[i] = l

color_mapping == [accepted |-> "#2ecc71", rejected |-> "#e74c3c", ignored |-> "#3498db"]

\* The mappings a caller passes: the default, one with no colour for
\* 'ignored', and one that gives two classifications the same colour.
Mappings ==
    { color_mapping,
      [accepted |-> "#2ecc71", rejected |-> "#e74c3c"],
      [accepted |-> "#27ae60", rejected |-> "#c0392b", ignored |-> "#27ae60"] }

\* One row of the table. Classification and variance explained are free;
\* kappa and rho follow them (accepted components score high on kappa,
\* rejected ones on rho), which leaves ties in both columns.
MakeRow(l, v) ==
    [classification |-> l,
     var_exp        |-> v,
     kappa          |-> IF l = "accepted" THEN v + MaxVal ELSE v,
     rho            |-> IF l = "rejected" THEN v + MaxVal ELSE 1]

RowChoices == {MakeRow(l, v) : l \in Labels, v \in 1..MaxVal}

\* A table wide enough for component ids of three digits, with distinct
\* kappa values and ties on rho
WideTable ==
    [i \in 1..WideComps |->
        [classification |-> LabelOrder[(i % 3) + 1],
         var_exp        |-> (i % 5) + 1,
         kappa          |-> i,
         rho            |-> (i % 7) + 1]]

Tables == UNION {[1..n -> RowChoices] : n \in 1..MaxComps}

\* A table of five components with the variance explained 40, 25, 15, 12, 8
\* and no ties
ScenarioTable ==
    <<[classification |-> "accepted", var_exp |-> 40, kappa |-> 90, rho |-> 10],
      [classification |-> "accepted", var_exp |-> 25, kappa |-> 70, rho |-> 20],
      [classification |-> "rejected", var_exp |-> 15, kappa |-> 20, rho |-> 80],
      [classification |-> "rejected", var_exp |-> 12, kappa |-> 30, rho |-> 60],
      [classification |-> "ignored",  var_exp |-> 8,  kappa |-> 40, rho |-> 30]>>

-----------------------------------------------------------------------------
(* create_data_struct *)

FeatureMin == 4
FeatureMax == 20

\* MinMaxScale without the replacement of a zero range
MinMaxScaleNoZeroGuard(col) ==
    LET lo    == SeqMin(col)
        hi    == SeqMax(col)
        range == hi - lo
    IN  AsSeq([i \in DOMAIN col |->
            Frac((col[i] - lo) * (FeatureMax - FeatureMin) + FeatureMin * range, range)])

\* MinMaxScaler(feature_range=(4, 20)).fit_transform on one column:
\* X * scale_ + min_, scale_ = (20 - 4) / range, min_ = 4 - min * scale_,
\* where a zero range is replaced by 1.
MinMaxScale(col) ==
    LET lo    == SeqMin(col)
        hi    == SeqMax(col)
        range == IF hi - lo = 0 THEN 1 ELSE hi - lo
    IN  AsSeq([i \in DOMAIN col |->
            Frac((col[i] - lo) * (FeatureMax - FeatureMin) + FeatureMin * range, range)])

\* Series.rank(ascending=False): pandas' default method is 'average', so
\* equal values share the mean of the positions they occupy.
Rank(col) ==
    AsSeq([i \in DOMAIN col |->
        LET greater == Cardinality({j \in DOMAIN col : col[j] > col[i]})
            equal   == Cardinality({j \in DOMAIN col : col[j] = col[i]})
        IN  Frac(2 * greater + equal + 1, 2)])

\* ColorOf reading the module-level mapping instead of the argument
ColorOfGlobal(cmap, label) == color_mapping[label]

\* [color_mapping[i] for i in df['classification']]
ColorOf(cmap, label) == cmap[label]

\* Angle dividing by the number of rows instead of the column's sum
AngleOverCount(col) ==
    AsSeq([i \in DOMAIN col |-> Frac(2 * col[i], Len(col))])

\* df['var_exp'] / df['var_exp'].sum() * 2 * pi, in units of pi
Angle(col) ==
    LET total == SumSeq(col)
    IN  AsSeq([i \in DOMAIN col |-> Frac(2 * col[i], total)])

\* Row a sorts before row b under sort_values(by=['classification', 'var_exp'])
KeyLess(a, b) ==
    \/ LabelRank(a.classification) < LabelRank(b.classification)
    \/ /\ a.classification = b.classification
       /\ a.var_exp < b.var_exp

\* The 1-based position each row takes after the sort; rows of equal key
\* keep their original order.
SortPosition(tbl) ==
    AsSeq([i \in DOMAIN tbl |->
        1 + Cardinality({j \in DOMAIN tbl :
                            \/ KeyLess(tbl[j], tbl[i])
                            \/ (~KeyLess(tbl[i], tbl[j]) /\ j < i)})])

InversePerm(pos) ==
    AsSeq([p \in DOMAIN pos |-> CHOOSE i \in DOMAIN pos : pos[i] = p])

\* The row order after the sort: SortOrder(tbl)[p] is the original index of
\* the row at position p.
SortOrder(tbl) == InversePerm(SortPosition(tbl))

NoCDS ==
    [kappa |-> <<>>, rho |-> <<>>, varexp |-> <<>>, kappa_rank |-> <<>>,
     rho_rank |-> <<>>, varexp_rank |-> <<>>, component |-> <<>>, color |-> <<>>,
     size |-> <<>>, classif |-> <<>>, angle |-> <<>>]

\* The result of create_data_struct(comptable_path, color_mapping): the
\* exception it raises ("none" when it returns) and the data source.
CreateDataStruct(tbl, cmap) ==
    LET n              == Len(tbl)
        classification == Column(tbl, "classification")
        var_exp        == Column(tbl, "var_exp")
        var_exp_size   == MinMaxScale(var_exp)
        rho_rank       == Rank(Column(tbl, "rho"))
        kappa_rank     == Rank(Column(tbl, "kappa"))
        var_exp_rank   == Rank(var_exp)
        component      == AsSeq([i \in 1..n |-> i - 1])
        angle          == Angle(var_exp)
        order          == SortOrder(tbl)
        Sorted(col)    == AsSeq([j \in 1..n |-> col[order[j]]])
    IN  IF \E i \in 1..n : classification[i] \notin DOMAIN cmap
        THEN [error |-> "KeyError", cds |-> NoCDS]
        ELSE [error |-> "none",
              cds   |-> [kappa       |-> Sorted(Column(tbl, "kappa")),
                         rho         |-> Sorted(Column(tbl, "rho")),
                         varexp      |-> Sorted(var_exp),
                         kappa_rank  |-> Sorted(kappa_rank),
                         rho_rank    |-> Sorted(rho_rank),
                         varexp_rank |-> Sorted(var_exp_rank),
                         component   |-> Sorted([i \in 1..n |-> Str(component[i])]),
                         color       |-> Sorted([i \in 1..n |->
                                                    ColorOf(cmap, classification[i])]),
                         size        |-> Sorted(var_exp_size),
                         classif     |-> Sorted(classification),
                         angle       |-> Sorted(angle)]]

-----------------------------------------------------------------------------
(* SpecData: create_data_struct on every table and mapping *)

InitData ==
    /\ pc = "load"
    /\ raw \in Tables \cup {ScenarioTable}
    /\ mapping \in Mappings
    /\ error = "none"
    /\ comptable_cds = NoCDS
    /\ comp_ts = <<>>
    /\ comp_fft = <<>>
    /\ freqs = <<>>
    /\ plot_ts_y = <<>>
    /\ plot_fft_y = <<>>
    /\ ts_line_color = "#000000"
    /\ fft_line_color = "#000000"
    /\ div_text = <<>>
    /\ selected = <<>>
    /\ n_sel = 0
    /\ NoReport

Prepare ==
    /\ pc = "load"
    /\ LET res == CreateDataStruct(raw, mapping)
       IN  /\ error' = res.error
           /\ comptable_cds' = res.cds
           /\ pc' = IF res.error = "none" THEN "done" ELSE "error"
    /\ UNCHANGED <<raw, mapping, comp_ts, comp_fft, freqs, plot_ts_y, plot_fft_y,
                   ts_line_color, fft_line_color, div_text, selected, n_sel, reportVars>>

NextData == Prepare

SpecData == InitData /\ [][NextData]_vars

-----------------------------------------------------------------------------
(* The time series and the spectrum table *)

tr == 2

out_dir == "/opt/tedana-hack/tedana/docs/DynReports/data/TED.five-echo/"

\* The column name of component c: 'ica_' + str(c).zfill(2)
ColumnName(c) == <<"ica_">> \o Zfill(Str(c), 2)

\* The time series read from ica_mixing.tsv: one column per component plus
\* the 'Volume' column the script adds. Every sample is positive and no two
\* components have the same series.
TimeSeries(n_comps, n_vols) ==
    [k \in {ColumnName(c) : c \in 0..(n_comps - 1)} \cup {<<"Volume">>} |->
        IF k = <<"Volume">> THEN AsSeq([i \in 1..n_vols |-> i - 1])
        ELSE LET c == CHOOSE c \in 0..(n_comps - 1) : ColumnName(c) = k
             IN  AsSeq([i \in 1..n_vols |-> c * n_vols + i])]

\* 2 * cos(2 * pi * m / n), an integer for the lengths the model uses
TwiceCos(m, n) ==
    LET r == m % n
    IN  CASE n = 1 -> 2
          [] n = 2 -> <<2, -2>>[r + 1]
          [] n = 3 -> <<2, -1, -1>>[r + 1]
          [] n = 4 -> <<2, 0, -2, 0>>[r + 1]
          [] n = 6 -> <<2, 1, -1, -2, -1, 1>>[r + 1]

\* |X_k|^2 of the discrete Fourier transform of ts
Power(ts, k) ==
    LET n == Len(ts)
        terms == [i \in 1..n |->
                     SumSeq([j \in 1..n |-> ts[i] * ts[j] * TwiceCos(k * (i - j) + k * n * n, n)])]
    IN  SumSeq(terms) \div 2

\* utils.get_spectrum(ts, tr): the one-sided power spectrum of ts and its
\* frequency axis, from 0 to the Nyquist frequency
get_spectrum(ts, rep_time) ==
    LET n      == Len(ts)
        n_bins == (n \div 2) + 1
    IN  [spectrum |-> AsSeq([k \in 1..n_bins |-> Power(ts, k - 1)]),
         freqs    |-> AsSeq([k \in 1..n_bins |-> Frac(k - 1, n * rep_time)])]

\* _spectrum_data_src(comp_ts_cds, tr, n_comps): the exception it raises
\* ("none" when it returns), the spectrum table and the frequency axis. The
\* table's index has the length of ica_00's spectrum, and pandas refuses, with
\* a ValueError, to assign a column of another length; the frequency axis
\* returned is the last component's.
SpectrumDataSrc(ts_data, rep_time, n_comps) ==
    LET n_freqs == Len(get_spectrum(ts_data[ColumnName(0)], rep_time).spectrum)
        columns == {ColumnName(c) : c \in 0..(n_comps - 1)}
        df      == [cid \in columns |-> get_spectrum(ts_data[cid], rep_time).spectrum]
    IN  IF \E cid \in columns : Len(df[cid]) # n_freqs
        THEN [error |-> "ValueError", cds |-> <<>>, freqs |-> <<>>]
        ELSE [error |-> "none",
              cds   |-> df,
              freqs |-> get_spectrum(ts_data[ColumnName(n_comps - 1)], rep_time).freqs]

-----------------------------------------------------------------------------
(* SpecSpectrum: _spectrum_data_src on time series of any lengths *)

\* The lengths a time series takes: those of at least two samples that
\* TwiceCos is an integer for
SeriesLengths == {2, 3, 4, 6}

\* A data source whose component c has lens[c + 1] samples, all positive, no
\* two components with the same series
RaggedSeries(lens) ==
    [k \in {ColumnName(c) : c \in 0..(Len(lens) - 1)} |->
        LET c == CHOOSE c \in 0..(Len(lens) - 1) : ColumnName(c) = k
        IN  AsSeq([i \in 1..lens[c + 1] |-> 6 * c + i])]

\* n_comps, the number of component columns of the data source
NComps(ts_data) == Cardinality({k \in DOMAIN ts_data : k[1] = "ica_"})

InitSpectrum ==
    /\ pc = "load"
    /\ raw = <<>>
    /\ mapping = color_mapping
    /\ error = "none"
    /\ comptable_cds = NoCDS
    /\ \E n \in 1..MaxComps : \E lens \in [1..n -> SeriesLengths] :
           comp_ts = RaggedSeries(lens)
    /\ comp_fft = <<>>
    /\ freqs = <<>>
    /\ plot_ts_y = <<>>
    /\ plot_fft_y = <<>>
    /\ ts_line_color = "#000000"
    /\ fft_line_color = "#000000"
    /\ div_text = <<>>
    /\ selected = <<>>
    /\ n_sel = 0
    /\ NoReport

BuildSpectrum ==
    /\ pc = "load"
    /\ LET res == SpectrumDataSrc(comp_ts, tr, NComps(comp_ts))
       IN  /\ error' = res.error
           /\ comp_fft' = res.cds
           /\ freqs' = res.freqs
           /\ pc' = IF res.error = "none" THEN "done" ELSE "error"
    /\ UNCHANGED <<raw, mapping, comptable_cds, comp_ts, plot_ts_y, plot_fft_y,
                   ts_line_color, fft_line_color, div_text, selected, n_sel, reportVars>>

NextSpectrum == BuildSpectrum

SpecSpectrum == InitSpectrum /\ [][NextSpectrum]_vars

-----------------------------------------------------------------------------
(* The tap callback *)

PanelLines == 35

Min(a, b) == IF a <= b THEN a ELSE b

\* JavaScript's conversion of the array selected_idx to a number for the
\* comparison with 0: [] is 0, [n] is n, a longer array is NaN.
ArrayToNumber(idx) ==
    IF Len(idx) = 0 THEN [nan |-> FALSE, val |-> 0]
    ELSE IF Len(idx) = 1 THEN [nan |-> FALSE, val |-> idx[1]]
    ELSE [nan |-> TRUE, val |-> 0]

\* if (selected_idx > 0): a comparison with NaN is false
SelectedIdxPositive(idx) ==
    LET x == ArrayToNumber(idx) IN ~x.nan /\ x.val > 0

\* column[selected_idx]: the array [n] is the property key "n"
AtSelected(column, idx) == column[idx[1] + 1]

\* while (selected_padded.length < 2) selected_padded = '0' + selected_padded
RECURSIVE PadToTwo(_)
PadToTwo(text) == IF Len(text) < 2 THEN PadToTwo(<<"0">> \o text) ELSE text

\* PaddedForIMG as a plain three-digit padding
PaddedForIMGThreeDigits(selected_padded) == Zfill(selected_padded, 3)

\* var selected_padded_forIMG = '0' + selected_padded
PaddedForIMG(selected_padded) == <<"0">> \o selected_padded

\* var line = "<span><img src='" + outdir + "/figures/comp_" + ... + ".png'" + ...
ImgLine(outdir, padded_forIMG) ==
    <<"<span><img src='", outdir, "/figures/comp_">> \o padded_forIMG
        \o <<".png'", " alt='Component Map' height=1000 width=900><span>", NewLine>>

\* CopyTrace stopping one sample early
CopyTraceButLast(y, series) ==
    AsSeq([i \in DOMAIN y |-> IF i < Len(y) THEN series[i] ELSE y[i]])

\* for (i < y.length) y[i] = series[i]
CopyTrace(y, series) == AsSeq([i \in DOMAIN y |-> series[i]])

\* ZeroTrace starting at the second sample
ZeroTraceFromSecond(y) == AsSeq([i \in DOMAIN y |-> IF i = 1 THEN y[i] ELSE 0])

\* for (i < y.length) y[i] = 0
ZeroTrace(y) == AsSeq([i \in DOMAIN y |-> 0])

\* PanelAfterSelect without the reset of div.text
PanelAfterSelectAppend(text_before, line) ==
    LET text  == text_before \o line
        lines == Split(text)
        kept  == IF Len(lines) > PanelLines THEN Tail(lines) ELSE lines
    IN  Join(kept)

\* The panel text the selection branch leaves, given the text before it
PanelAfterSelect(text_before, line) ==
    LET cleared == <<>>                       \* div.text = ""
        text    == cleared \o line            \* div.text.concat(line)
        lines   == Split(text)
        kept    == IF Len(lines) > PanelLines THEN Tail(lines) ELSE lines
    IN  Join(kept)

\* The callback, run with the selection the tap tool left in the table
TapCallback(idx) ==
    /\ selected' = idx
    /\ IF SelectedIdxPositive(idx)
       THEN LET sel             == AtSelected(comptable_cds.component, idx)
                selected_padded == PadToTwo(sel)
                padded_C        == <<"ica_">> \o selected_padded
                color           == AtSelected(comptable_cds.color, idx)
            IN  /\ ts_line_color' = color
                /\ fft_line_color' = color
                /\ plot_ts_y' = CopyTrace(plot_ts_y, comp_ts[padded_C])
                /\ plot_fft_y' = CopyTrace(plot_fft_y, comp_fft[padded_C])
                /\ div_text' = PanelAfterSelect(div_text,
                                   ImgLine(out_dir, PaddedForIMG(selected_padded)))
                /\ n_sel' = Min(n_sel + 1, MaxRun)
       ELSE /\ ts_line_color' = "#000000"
            /\ fft_line_color' = "#000000"
            /\ plot_ts_y' = ZeroTrace(plot_ts_y)
            /\ plot_fft_y' = ZeroTrace(plot_fft_y)
            /\ div_text' = <<NewLine>>
            /\ n_sel' = 0
    /\ UNCHANGED <<pc, raw, mapping, error, comptable_cds, comp_ts, comp_fft, freqs,
                   reportVars>>

-----------------------------------------------------------------------------
(* The linked charts *)

Figs == {"kappa_rho_plot", "kappa_sorted_plot", "rho_sorted_plot", "varexp_pie_plot"}

Rows == 0..(Len(comptable_cds.component) - 1)

\* Where chart fig draws the glyph of row r
GlyphAt(fig, r) ==
    CASE fig = "kappa_rho_plot"    -> <<comptable_cds.kappa[r + 1], comptable_cds.rho[r + 1]>>
      [] fig = "kappa_sorted_plot" -> <<comptable_cds.kappa_rank[r + 1], comptable_cds.kappa[r + 1]>>
      [] fig = "rho_sorted_plot"   -> <<comptable_cds.rho_rank[r + 1], comptable_cds.rho[r + 1]>>
      [] fig = "varexp_pie_plot"   -> <<"wedge", r>>

\* The rows whose glyphs chart fig draws at the place of row r's
Coincident(fig, r) == {q \in Rows : GlyphAt(fig, q) = GlyphAt(fig, r)}

RECURSIVE Ascending(_)
Ascending(S) ==
    IF S = {} THEN <<>>
    ELSE LET m == CHOOSE x \in S : \A y \in S : x <= y
         IN  <<m>> \o Ascending(S \ {m})

\* Every chart carries the same callback on its Tap event, and all four share
\* the table's selection. The callback is taken to run once the tap tool has
\* put the rows it hit into source_comp_table.selected.indices.

\* A click on the glyph of row r in chart fig: the tap tool selects the row
TapPoint(fig, r) ==
    /\ pc = "ready"
    /\ TapCallback(<<r>>)

\* A click where chart fig draws several glyphs on top of each other, and
\* the tap tool selects all of them
TapOverlap(fig, r) ==
    /\ pc = "ready"
    /\ Cardinality(Coincident(fig, r)) > 1
    /\ TapCallback(Ascending(Coincident(fig, r)))

\* A click in chart fig that hits no glyph: the tap tool clears the selection
TapBlank(fig) ==
    /\ pc = "ready"
    /\ TapCallback(<<>>)

\* The page as the script builds it from table tbl (every trace zero-filled
\* and black, the panel empty, nothing selected)
Page(tbl) ==
    /\ pc = "ready"
    /\ raw = tbl
    /\ mapping = color_mapping
    /\ error = "none"
    /\ comptable_cds = CreateDataStruct(raw, mapping).cds
    /\ comp_ts = TimeSeries(Len(raw), NVols)
    /\ comp_fft = SpectrumDataSrc(comp_ts, tr, Len(raw)).cds
    /\ freqs = SpectrumDataSrc(comp_ts, tr, Len(raw)).freqs
    /\ plot_ts_y = AsSeq([i \in 1..NVols |-> 0])
    /\ plot_fft_y = AsSeq([i \in 1..Len(freqs) |-> 0])
    /\ ts_line_color = "#000000"
    /\ fft_line_color = "#000000"
    /\ div_text = <<>>
    /\ selected = <<>>
    /\ n_sel = 0
    /\ NoReport

Init == \E tbl \in Tables : Page(tbl)

Next ==
    \E fig \in Figs :
        \/ \E r \in Rows : TapPoint(fig, r)
        \/ \E r \in Rows : TapOverlap(fig, r)
        \/ TapBlank(fig)

Spec == Init /\ [][Next]_vars

\* The same page over the wide table
InitWide == Page(WideTable)

SpecWide == InitWide /\ [][Next]_vars

-----------------------------------------------------------------------------
(* html_report.py: the templates and the report file *)

\* tedana.info.__version__
version == <<"tedana.info.__version__">>

\* resource_path.joinpath(body_template_name) and (head_template_name)
body_template_path == "tedana/reporting/data/html/report_body_template.html"

head_template_path == "tedana/reporting/data/html/report_head_template.html"

\* The path generate_report writes when file_path is None
DefaultPath == "./tedana_report.html"

None == "None"

\* The chunks string.Template reads as a placeholder, and the key each names
Placeholders == {"$content", "$javascript", "$version", "$body", "$title", "$author"}

KeyOf(chunk) ==
    CASE chunk = "$content"    -> "content"
      [] chunk = "$javascript" -> "javascript"
      [] chunk = "$version"    -> "version"
      [] chunk = "$body"       -> "body"
      [] chunk = "$title"      -> "title"
      [] chunk = "$author"     -> "author"

\* The concatenation of a sequence of texts
RECURSIVE Concat(_)
Concat(texts) == IF texts = <<>> THEN <<>> ELSE Head(texts) \o Concat(Tail(texts))

\* Template(tpl).substitute(**kws): every placeholder is replaced by the text
\* of its key and '$$' by '$'; a placeholder whose key is not given raises
\* KeyError. The texts put in are not scanned again.
Substitute(tpl, kws) ==
    IF \E i \in DOMAIN tpl : tpl[i] \in Placeholders /\ KeyOf(tpl[i]) \notin DOMAIN kws
    THEN [error |-> "KeyError", text |-> <<>>]
    ELSE [error |-> "none",
          text  |-> Concat([i \in DOMAIN tpl |->
                       IF tpl[i] \in Placeholders THEN kws[KeyOf(tpl[i])]
                       ELSE IF tpl[i] = "$$" THEN <<"$">>
                       ELSE <<tpl[i]>>])]

\* The character references the texts of the model hold, and their characters
CharRefs == {"&lt;", "&gt;", "&amp;", "&quot;"}

CharOf(ref) ==
    CASE ref = "&lt;"   -> "<"
      [] ref = "&gt;"   -> ">"
      [] ref = "&amp;"  -> "&"
      [] ref = "&quot;" -> "\""

\* Unescape leaving the text as it is
UnescapeNothing(text) == text

\* html.unescape(text): one pass that replaces every character reference
Unescape(text) ==
    AsSeq([i \in DOMAIN text |-> IF text[i] \in CharRefs THEN CharOf(text[i]) ELSE text[i]])

\* The characters outside ASCII the texts of the model hold, and their UTF-8
\* bytes
Utf8Bytes(chunk) ==
    CASE chunk = "U+00E9" -> <<"0xC3", "0xA9">>
      [] chunk = "U+20AC" -> <<"0xE2", "0x82", "0xAC">>
      [] OTHER -> <<chunk>>

\* text.encode('utf-8'): an ASCII chunk is its own bytes
EncodeUtf8(text) == Concat([i \in DOMAIN text |-> Utf8Bytes(text[i])])

\* _update_template_bokeh(bokeh_id, bokeh_js) on the files on disk: the
\* exception raised ("none" when it returns) and the body
UpdateTemplateBokeh(files, bokeh_id, bokeh_js) ==
    IF body_template_path \notin DOMAIN files
    THEN [error |-> "FileNotFoundError", body |-> <<>>]
    ELSE LET body_tpl == files[body_template_path]
             subst    == Substitute(body_tpl, [content |-> bokeh_id, javascript |-> bokeh_js])
         IN  IF subst.error # "none"
             THEN [error |-> subst.error, body |-> <<>>]
             ELSE [error |-> "none", body |-> Unescape(subst.text)]

\* _save_as_html(body): the exception raised and the page
SaveAsHtml(files, body) ==
    IF head_template_path \notin DOMAIN files
    THEN [error |-> "FileNotFoundError", html |-> <<>>]
    ELSE LET head_tpl == files[head_template_path]
             subst    == Substitute(head_tpl, [version |-> version, body |-> body])
         IN  [error |-> subst.error, html |-> subst.text]

\* TargetPath ignoring file_path
TargetPathDefaultOnly(file_path) == DefaultPath

\* The path generate_report opens
TargetPath(file_path) == IF file_path # None THEN file_path ELSE DefaultPath

\* open(path, 'wb') followed by f.write(data): a refused open raises the
\* error the system gives and leaves the files as they are; otherwise the
\* file is created or truncated and then holds data.
WriteBinary(files, refused, path, data) ==
    IF path \in DOMAIN refused
    THEN [error |-> refused[path], fs |-> files]
    ELSE [error |-> "none",
          fs    |-> [q \in DOMAIN files \cup {path} |-> IF q = path THEN data ELSE files[q]]]

\* generate_report opening the target before it reads the templates
GenerateReportOpenFirst(files, refused, bokeh_id, bokeh_js, file_path) ==
    LET opened == WriteBinary(files, refused, TargetPath(file_path), <<>>)
        upd    == UpdateTemplateBokeh(files, bokeh_id, bokeh_js)
        page   == SaveAsHtml(files, upd.body)
    IN  IF opened.error # "none" THEN opened
        ELSE IF upd.error # "none" THEN [error |-> upd.error, fs |-> opened.fs]
        ELSE IF page.error # "none" THEN [error |-> page.error, fs |-> opened.fs]
        ELSE WriteBinary(files, refused, TargetPath(file_path), EncodeUtf8(page.html))

\* generate_report(bokeh_id, bokeh_js, file_path): the exception that leaves
\* it ("none" when it returns) and the files on disk afterwards
GenerateReport(files, refused, bokeh_id, bokeh_js, file_path) ==
    LET upd  == UpdateTemplateBokeh(files, bokeh_id, bokeh_js)
        page == SaveAsHtml(files, upd.body)
    IN  IF upd.error # "none" THEN [error |-> upd.error, fs |-> files]
        ELSE IF page.error # "none" THEN [error |-> page.error, fs |-> files]
        ELSE WriteBinary(files, refused, TargetPath(file_path), EncodeUtf8(page.html))

-----------------------------------------------------------------------------
(* SpecReport: generate_report on every set of files and arguments *)

\* The body templates on disk: the fields content and javascript; the same
\* with a field the code gives no key for; one with a character reference and
\* an escaped dollar sign
BodyTemplates ==
    { <<"<div class='content'>", "$content", "</div>", "$javascript">>,
      <<"<h1>", "$title", "</h1>", "$content", "$javascript">>,
      <<"<p>", "&lt;", "$$", "</p>", "$content", "$javascript">> }

\* The head templates on disk: the fields version and body, and the same with
\* a field the code gives no key for
HeadTemplates ==
    { <<"<html><head>", "$version", "</head><body>", "$body", "</body></html>">>,
      <<"<html><head>", "$version", "$author", "</head><body>", "$body", "</body></html>">> }

\* The chart markup and the chart script a caller passes: plain ones, and
\* ones with characters outside ASCII, character references and dollar signs
BokehDivs ==
    { <<"<div class='bk-root' id='1'>", "</div>">>,
      <<"<div class='bk-root'>", "caf", "U+00E9", " ", "&amp;", " 5", "U+20AC", "</div>">> }

BokehScripts ==
    { <<"<script>", "var docs_json = '{}';", "</script>">>,
      <<"<script>", "if (a ", "&lt;", " b) t = '", "$version", "';", "</script>">> }

FilePaths == {None, "out/report_v3.html"}

OutputPaths == {TargetPath(f) : f \in FilePaths}

\* What an output file holds when an earlier run has left one
EarlierReport == <<"<html>", "earlier report", "</html>">>

\* The errors open(path, 'wb') raises: no permission, no such directory
OpenErrors == {"PermissionError", "FileNotFoundError"}

\* The files on disk before the call: each template present or missing,
\* each output path absent or holding an earlier report
FileSystems ==
    { [q \in T \cup O |->
          IF q = body_template_path THEN b
          ELSE IF q = head_template_path THEN h
          ELSE EarlierReport] :
        T \in SUBSET {body_template_path, head_template_path},
        O \in SUBSET OutputPaths,
        b \in BodyTemplates,
        h \in HeadTemplates }

InitReport ==
    /\ pc = "load"
    /\ raw = <<>>
    /\ mapping = color_mapping
    /\ error = "none"
    /\ comptable_cds = NoCDS
    /\ comp_ts = <<>>
    /\ comp_fft = <<>>
    /\ freqs = <<>>
    /\ plot_ts_y = <<>>
    /\ plot_fft_y = <<>>
    /\ ts_line_color = "#000000"
    /\ fft_line_color = "#000000"
    /\ div_text = <<>>
    /\ selected = <<>>
    /\ n_sel = 0
    /\ fs \in FileSystems
    /\ \E R \in SUBSET OutputPaths : unwritable \in [R -> OpenErrors]
    /\ args \in [bokeh_id : BokehDivs, bokeh_js : BokehScripts, file_path : FilePaths]

CallGenerateReport ==
    /\ pc = "load"
    /\ LET res == GenerateReport(fs, unwritable, args.bokeh_id, args.bokeh_js, args.file_path)
       IN  /\ error' = res.error
           /\ fs' = res.fs
           /\ pc' = IF res.error = "none" THEN "done" ELSE "error"
    /\ UNCHANGED <<raw, mapping, comptable_cds, comp_ts, comp_fft, freqs, plot_ts_y,
                   plot_fft_y, ts_line_color, fft_line_color, div_text, selected, n_sel,
                   unwritable, args>>

NextReport == CallGenerateReport

SpecReport == InitReport /\ [][NextReport]_vars

-----------------------------------------------------------------------------
(* What the properties below speak of *)

\* The id of the component whose record is at row r of the sorted table
ComponentAtRow(r) == SortOrder(raw)[r + 1] - 1

Zeros(n) == AsSeq([i \in 1..n |-> 0])

NumBins == (NVols \div 2) + 1

\* The decimal id left-padded with zeros to at least two digits
TwoDigits(c) == IF c < 10 THEN <<"0">> \o Str(c) ELSE Str(c)

\* outdir + '/figures/comp_' + '0' + TwoDigits(c) + '.png' (with the quote
\* that closes the src attribute)
ImageRef(c) == <<out_dir, "/figures/comp_", "0">> \o TwoDigits(c) \o <<".png'">>

\* How many image lines the panel holds
ImageCount(text) == Cardinality({i \in DOMAIN text : text[i] = "/figures/comp_"})

\* The panel holds the image reference of component c right after the
\* opening of its first line
PanelRefers(text, c) ==
    /\ Len(text) > Len(ImageRef(c))
    /\ SubSeq(text, 2, 1 + Len(ImageRef(c))) = ImageRef(c)

\* The colour of component c's record
RecordColor(c) == mapping[raw[c + 1].classification]

NoSelectionShown ==
    /\ plot_ts_y = Zeros(NVols)
    /\ plot_fft_y = Zeros(NumBins)
    /\ ts_line_color = "#000000"
    /\ fft_line_color = "#000000"
    /\ ImageCount(div_text) = 0

ShowsComponent(c) ==
    /\ plot_ts_y = comp_ts[ColumnName(c)]
    /\ plot_fft_y = comp_fft[ColumnName(c)]
    /\ ts_line_color = RecordColor(c)
    /\ fft_line_color = RecordColor(c)
    /\ ImageCount(div_text) = 1
    /\ PanelRefers(div_text, c)

-----------------------------------------------------------------------------
(* Properties of the tap callback *)

\* C1 (as claimed): after a click that selects the row of any component c,
\* the time-series trace is c's stored series, the spectrum trace is c's
\* stored spectrum (both under 'ica_' + c padded to 2 digits), and both line
\* colours are the colour the table stores in that row.
C1_TracesOfSelectedRow ==
    (pc = "ready" /\ Len(selected) = 1) =>
        LET r == selected[1]
            c == ComponentAtRow(r)
        IN  /\ plot_ts_y = comp_ts[ColumnName(c)]
            /\ plot_fft_y = comp_fft[ColumnName(c)]
            /\ ts_line_color = comptable_cds.color[r + 1]
            /\ fft_line_color = comptable_cds.color[r + 1]

\* C2 (as claimed): a click on the point of any record, row 0 included, in
\* any of the four charts leaves the page in Selected(id of that record).
C2_ClickSelectsRecord ==
    (pc = "ready" /\ Len(selected) = 1) =>
        ShowsComponent(ComponentAtRow(selected[1]))

\* C3: when the callback finds no valid selection, both traces are all
\* zero, both colours are black and the panel holds no image reference (at
\* most a newline), which is the state the charts were built with.
C3_DeselectResets ==
    (pc = "ready" /\ ~SelectedIdxPositive(selected)) =>
        /\ plot_ts_y = Zeros(NVols)
        /\ plot_fft_y = Zeros(NumBins)
        /\ ts_line_color = "#000000"
        /\ fft_line_color = "#000000"
        /\ \A i \in DOMAIN div_text : div_text[i] = NewLine

\* C3 witness: a click that hit nothing has been handled
C3_Witness ==
    /\ pc = "ready"
    /\ selected = <<>>
    /\ div_text = <<NewLine>>
    /\ plot_ts_y = Zeros(NVols)

\* C4: the page always shows one single selection: nothing (zero traces,
\* black, no image) or exactly one component (its series, its spectrum, its
\* colour and its image), never a mixture.
C4_SingleSelectionShown ==
    pc = "ready" =>
        LET shown == {c \in 0..(Len(raw) - 1) : ShowsComponent(c)}
        IN  \/ NoSelectionShown /\ shown = {}
            \/ ~NoSelectionShown /\ Cardinality(shown) = 1

\* C4 witness: a component is shown after two selections in a row, in a
\* table of several components
C4_Witness ==
    /\ pc = "ready"
    /\ n_sel = MaxRun
    /\ Len(raw) > 2
    /\ \E c \in 0..(Len(raw) - 1) : ShowsComponent(c) /\ c # selected[1]

C6_ImageReference ==
    (pc = "ready" /\ SelectedIdxPositive(selected)) =>
        LET c == ComponentAtRow(selected[1])
        IN  /\ PanelRefers(div_text, c)
            /\ c = 3 => SubSeq(div_text, 3, 7) = <<"/figures/comp_", "0", "0", "3", ".png'">>
            /\ c = 100 =>
                  SubSeq(div_text, 3, 8) = <<"/figures/comp_", "0", "1", "0", "0", ".png'">>

\* C6 witness: the record of a three-digit component is selected, at a row
\* other than its id
C6_Witness ==
    /\ pc = "ready"
    /\ SelectedIdxPositive(selected)
    /\ ComponentAtRow(selected[1]) >= 100
    /\ ComponentAtRow(selected[1]) # selected[1]
    /\ ImageCount(div_text) = 1

-----------------------------------------------------------------------------
(* Properties of create_data_struct *)

IsWhole(f) == f.den # 0 /\ f.num % f.den = 0

\* The id of the component whose record is at position j of the result
ComponentOfRecord(j) ==
    CHOOSE c \in 0..(Len(raw) - 1) : Str(c) = comptable_cds.component[j]

\* C7 (as claimed): each rank column is a permutation of 1..N, descending
\* in its metric, and components with equal metric values get distinct
\* ranks, the earlier component the smaller one.
C7_RanksArePermutation ==
    pc = "done" =>
        \A col \in {<<"kappa", "kappa_rank">>, <<"rho", "rho_rank">>,
                    <<"varexp", "varexp_rank">>} :
            LET metric == comptable_cds[col[1]]
                rank   == comptable_cds[col[2]]
                n      == Len(rank)
            IN  /\ \A j \in 1..n : IsWhole(rank[j])
                /\ {rank[j].num \div rank[j].den : j \in 1..n} = 1..n
                /\ \A j, k \in 1..n :
                      /\ metric[j] > metric[k] => ~FracLeq(rank[k], rank[j])
                      /\ (metric[j] = metric[k]
                            /\ ComponentOfRecord(j) < ComponentOfRecord(k))
                         => ~FracLeq(rank[k], rank[j])

C10_PieAngles ==
    pc = "done" =>
        LET angle  == comptable_cds.angle
            n      == Len(raw)
            total  == SumSeq(Column(raw, "var_exp"))
        IN  /\ Len(angle) = n
            /\ \A j \in 1..n : angle[j].den = angle[1].den /\ angle[j].den > 0
            /\ SumSeq(Column(angle, "num")) = 2 * angle[1].den
            /\ {comptable_cds.component[j] : j \in 1..n} = {Str(c) : c \in 0..(n - 1)}
            /\ \A j \in 1..n :
                  LET c == ComponentOfRecord(j)
                  IN  /\ FracEq(angle[j], Frac(2 * raw[c + 1].var_exp, total))
                      /\ comptable_cds.varexp[j] = raw[c + 1].var_exp
                      /\ comptable_cds.classif[j] = raw[c + 1].classification
            /\ \A j \in 1..(n - 1) :
                  ~KeyLess([classification |-> comptable_cds.classif[j + 1],
                            var_exp |-> comptable_cds.varexp[j + 1]],
                           [classification |-> comptable_cds.classif[j],
                            var_exp |-> comptable_cds.varexp[j]])

\* C10 witness: the sort has moved the first component away from the first
\* row, and the records differ in their angles
C10_Witness ==
    /\ pc = "done"
    /\ Len(raw) > 2
    /\ comptable_cds.component[1] # <<"0">>
    /\ \E j \in DOMAIN raw : ~FracEq(comptable_cds.angle[j], comptable_cds.angle[1])

-----------------------------------------------------------------------------
(* Properties of _spectrum_data_src *)

\* The component columns of the time series
ComponentColumns == {ColumnName(c) : c \in 0..(NComps(comp_ts) - 1)}

EqualLengths == \A j, k \in ComponentColumns : Len(comp_ts[j]) = Len(comp_ts[k])

\* C11 (as claimed): the spectrum table has one column per component and
\* the same number of bins in each, and every component's frequency axis is
\* the one returned; when the time series do not all have the same length,
\* _spectrum_data_src fails with a DataFormatError and returns no table.
C11_SpectrumTable ==
    pc \in {"done", "error"} =>
        /\ ~EqualLengths => (pc = "error" /\ error = "DataFormatError")
        /\ pc = "done" =>
              /\ DOMAIN comp_fft = ComponentColumns
              /\ \A k \in ComponentColumns :
                    /\ Len(comp_fft[k]) = Len(freqs)
                    /\ get_spectrum(comp_ts[k], tr).freqs = freqs

-----------------------------------------------------------------------------
(* Properties of generate_report *)

\* The path the report is to be written to
ExpectedTarget ==
    IF args.file_path = None THEN "./tedana_report.html" ELSE args.file_path

\* Template tpl holds a placeholder for which the code passes no key
KeyAbsent(tpl, keys) ==
    \E i \in DOMAIN tpl : tpl[i] \in Placeholders /\ KeyOf(tpl[i]) \notin keys

BodyMissing == body_template_path \notin DOMAIN fs

BodyKeyAbsent == ~BodyMissing /\ KeyAbsent(fs[body_template_path], {"content", "javascript"})

HeadMissing == head_template_path \notin DOMAIN fs

HeadKeyAbsent == ~HeadMissing /\ KeyAbsent(fs[head_template_path], {"version", "body"})

TemplateProblem == BodyMissing \/ BodyKeyAbsent \/ HeadMissing \/ HeadKeyAbsent

\* No output path has been created, truncated or written: one that exists
\* holds the earlier report it held before the call
OutputsUntouched(paths) ==
    \A q \in paths : q \in DOMAIN fs => fs[q] = EarlierReport

\* Python's exception classes: IOError is OSError, and the errors of open()
\* are subclasses of it
IsIOError(exc) == exc \in {"IOError", "OSError", "FileNotFoundError", "PermissionError"}

ExpectedPage(FinishBody(_)) ==
    LET body == FinishBody(Substitute(fs[body_template_path],
                    [content |-> args.bokeh_id, javascript |-> args.bokeh_js]).text)
    IN  Substitute(fs[head_template_path], [version |-> version, body |-> body]).text

AsSubstituted(text) == text

\* Exactly the target holds bytes, and no other path has been written
OnlyTargetHolds(bytes) ==
    /\ ExpectedTarget \in DOMAIN fs
    /\ fs[ExpectedTarget] = bytes
    /\ OutputsUntouched(OutputPaths \ {ExpectedTarget})
    /\ DOMAIN fs \subseteq {body_template_path, head_template_path} \cup OutputPaths

\* C13 (as claimed): after a successful call the target (file_path, or
\* './tedana_report.html' when file_path is None) holds the UTF-8 bytes of
\* the head template with the version and the body substituted, the body
\* being the body template with the markup as content and the script as
\* javascript; no other path is written.
C13_WritesSubstitutedPage ==
    pc = "done" => OnlyTargetHolds(EncodeUtf8(ExpectedPage(AsSubstituted)))

\* C13 (amended): as claimed, except that the body is the substituted body
\* template after html.unescape, so every character reference in the body
\* template, the markup or the script is written as its character.
C13_WritesUnescapedPage ==
    pc = "done" =>
        /\ OnlyTargetHolds(EncodeUtf8(ExpectedPage(Unescape)))
        /\ (/\ fs[body_template_path] = <<"<p>", "&lt;", "$$", "</p>", "$content", "$javascript">>
            /\ fs[head_template_path] =
                   <<"<html><head>", "$version", "</head><body>", "$body", "</body></html>">>
            /\ args.bokeh_id = <<"<div class='bk-root'>", "caf", "U+00E9", " ", "&amp;",
                                 " 5", "U+20AC", "</div>">>
            /\ args.bokeh_js = <<"<script>", "if (a ", "&lt;", " b) t = '", "$version", "';",
                                 "</script>">>)
           => fs[ExpectedTarget] =
                  <<"<html><head>", "tedana.info.__version__", "</head><body>",
                    "<p>", "<", "$", "</p>",
                    "<div class='bk-root'>", "caf", "0xC3", "0xA9", " ", "&", " 5",
                    "0xE2", "0x82", "0xAC", "</div>",
                    "<script>", "if (a ", "<", " b) t = '", "$version", "';", "</script>",
                    "</body></html>">>

\* C13 witness: a report with character references and characters outside
\* ASCII has been written to the file_path given, over an earlier report,
\* while the default path holds another one
C13_Witness ==
    /\ pc = "done"
    /\ args.file_path # None
    /\ fs[args.file_path] # EarlierReport
    /\ "./tedana_report.html" \in DOMAIN fs
    /\ \E i \in DOMAIN args.bokeh_js : args.bokeh_js[i] \in CharRefs
    /\ \E i \in DOMAIN fs[args.file_path] : fs[args.file_path][i] = "0xC3"

====
